---- MODULE Spec2Model ----
(***************************************************************************)
(* Model of the NDNQI data preparation pipeline:                           *)
(*   helper_functions.py : AddDateColumns, sort_by_date,                   *)
(*                         aggregate_dataframe, rolling_spc_agg            *)
(*   large_hospital_dataset_cleaning.py : the script that drives them      *)
(*                                                                         *)
(* A table (DataFrame) is a sequence of rows (records).  Period labels are *)
(* sequences of one-character strings, so that formatting and parsing are  *)
(* computed and not assumed.  Floating point values are modelled exactly:  *)
(* a Rate is NaN, +inf or a rational; an SPC value is NaN or a number      *)
(* c + s*sqrt(v) with c, v rational and s an integer.                      *)
(***************************************************************************)
EXTENDS Integers, Sequences, FiniteSets, TLC

VARIABLES
    pc,                  \* position in the script / in the function under study
    df,                  \* script: the raw table (after read_csv)
    df_w_date_columns,   \* script: the table returned by AddDateColumns
    agg_year,            \* script: aggregate_dataframe(..., "Year")
    agg_quarter,         \* script: aggregate_dataframe(..., "Quarter")
    agg_month,           \* script: aggregate_dataframe(..., "Month")
    agg_month_spc,       \* script: rolling_spc_agg(agg_month, 24)
    agg_quarter_spc,     \* script: rolling_spc_agg(agg_quarter, 8)
    agg_year_spc,        \* script: rolling_spc_agg(agg_year, 2)
    Finalset,            \* script: the concatenated table
    df_subset,           \* sort_by_date: its argument table
    frequency,           \* sort_by_date / aggregate_dataframe: the frequency argument
    sorted_df,           \* sort_by_date: what the call produced
    agg_df,              \* rolling_spc_agg: its argument table (an aggregate_dataframe result)
    window_size,         \* rolling_spc_agg: its window_size argument
    df_out               \* rolling_spc_agg: the table it returns

vars == <<pc, df, df_w_date_columns, agg_year, agg_quarter, agg_month,
          agg_month_spc, agg_quarter_spc, agg_year_spc, Finalset,
          df_subset, frequency, sorted_df, agg_df, window_size, df_out>>

(***************************************************************************)
(* Bounds of the model.                                                    *)
(***************************************************************************)
MaxRecords == 3      \* raw records in the script's input table
MaxRows    == 4      \* rows of the table handed to rolling_spc_agg
MaxWindow  == 2      \* largest window_size tried on rolling_spc_agg
MaxLabels  == 3      \* rows of the table handed to sort_by_date

(***************************************************************************)
(* Exact arithmetic: rationals n/d in lowest terms, d > 0.                 *)
(***************************************************************************)
Abs(x) == IF x < 0 THEN -x ELSE x

RECURSIVE Gcd(_, _)
Gcd(a, b) == IF b = 0 THEN a ELSE Gcd(b, a % b)

QNorm(n, d) ==
    LET g == Gcd(Abs(n), Abs(d))
        sgn == IF d < 0 THEN -1 ELSE 1
    IN  [n |-> sgn * (n \div g), d |-> sgn * (d \div g)]

QInt(i) == [n |-> i, d |-> 1]
QZero == QInt(0)
QAdd(a, b) == QNorm(a.n * b.d + b.n * a.d, a.d * b.d)
QSub(a, b) == QNorm(a.n * b.d - b.n * a.d, a.d * b.d)
QMul(a, b) == QNorm(a.n * b.n, a.d * b.d)
QDivInt(a, i) == QNorm(a.n, a.d * i)
QLt(a, b) == a.n * b.d < b.n * a.d

RECURSIVE QSum(_)
QSum(s) == IF s = <<>> THEN QZero ELSE QAdd(Head(s), QSum(Tail(s)))

(***************************************************************************)
(* float64 values as pandas sees them.                                     *)
(***************************************************************************)
NaN == [k |-> "nan"]
Inf == [k |-> "inf"]
Fin(q) == [k |-> "fin", q |-> q]
IsFin(x) == x.k = "fin"

\* mutant of FDivInt: a zero denominator is guarded and gives 0
FDivIntGuarded(n, d) == IF d = 0 THEN Fin(QInt(0)) ELSE Fin(QNorm(n, d))

\* int / int (true division of two integer columns): x/0 is inf, 0/0 is NaN,
\* and no exception is raised
FDivInt(n, d) ==
    IF d = 0 THEN (IF n = 0 THEN NaN ELSE Inf)
    ELSE Fin(QNorm(n, d))

\* x * m for a float x and a Multiplier m, which is NaN or a number >= 0
FMul(x, m) ==
    IF m.k = "nan" \/ x.k = "nan" THEN NaN
    ELSE IF x.k = "inf" THEN (IF m.q = QZero THEN NaN ELSE Inf)
    ELSE Fin(QMul(x.q, m.q))

(***************************************************************************)
(* SPC values: NaN, or c + s*sqrt(v).                                      *)
(***************************************************************************)
SNorm(c, s, v) ==
    IF s = 0 \/ v = QZero THEN [k |-> "fin", c |-> c, s |-> 0, v |-> QZero]
    ELSE [k |-> "fin", c |-> c, s |-> s, v |-> v]

SRat(q) == SNorm(q, 0, QZero)
SZero == SRat(QZero)
SSqrt(v) == SNorm(QZero, 1, v)

\* k * x for an integer k (k * group['Rolling_Std'])
SScale(i, x) ==
    IF x.k = "nan" THEN NaN
    ELSE SNorm(QMul(QInt(i), x.c), i * x.s, x.v)

\* x + y, where at most one of the two carries a square root
SAdd(x, y) ==
    IF x.k = "nan" \/ y.k = "nan" THEN NaN
    ELSE SNorm(QAdd(x.c, y.c), x.s + y.s, IF x.s = 0 THEN y.v ELSE x.v)

SSub(x, y) == SAdd(x, SScale(-1, y))

\* c + s*sqrt(v) < 0, decided on squares
SNeg(x) ==
    LET sq == QMul(QInt(x.s * x.s), x.v)      \* (s*sqrt(v))^2
        cc == QMul(x.c, x.c)
    IN  IF x.s = 0 THEN QLt(x.c, QZero)
        ELSE IF x.s < 0
             THEN (IF QLt(x.c, QZero) THEN TRUE ELSE QLt(cc, sq))
             ELSE (IF QLt(x.c, QZero) THEN QLt(sq, cc) ELSE FALSE)

(***************************************************************************)
(* Sequences and sorting.                                                  *)
(***************************************************************************)
Indices(s) == 1..Len(s)

\* mutant of KeyLe: only the first column (Measure) is compared
KeyLeFirstColumn(a, b) == Head(a) <= Head(b)

\* lexicographic order on tuples of integers (a proper prefix comes first)
RECURSIVE KeyLe(_, _)
KeyLe(a, b) ==
    IF a = <<>> THEN TRUE
    ELSE IF b = <<>> THEN FALSE
    ELSE IF Head(a) < Head(b) THEN TRUE
    ELSE IF Head(a) > Head(b) THEN FALSE
    ELSE KeyLe(Tail(a), Tail(b))

\* x placed behind every element of the sorted s whose key is <= its key
RECURSIVE InsertByKey(_, _)
InsertByKey(s, x) ==
    IF s = <<>> THEN <<x>>
    ELSE IF KeyLe(Head(s).key, x.key) THEN <<Head(s)>> \o InsertByKey(Tail(s), x)
    ELSE <<x>> \o s

RECURSIVE SortKeyed(_, _)
SortKeyed(acc, rest) ==
    IF rest = <<>> THEN acc
    ELSE SortKeyed(InsertByKey(acc, Head(rest)), Tail(rest))

\* DataFrame.sort_values(by=[...]) on several columns: a stable sort on the
\* tuple of the columns; keyed[i] = [key |-> <<...>>, row |-> the row]
sort_values(keyed) ==
    LET r == SortKeyed(<<>>, keyed)
    IN  [i \in Indices(r) |-> r[i].row]

(***************************************************************************)
(* Strings: a str is a sequence of one-character strings.                  *)
(***************************************************************************)
DigitChars == <<"0", "1", "2", "3", "4", "5", "6", "7", "8", "9">>
Digits == {DigitChars[i] : i \in 1..10}
DigitVal(c) == (CHOOSE i \in 1..10 : DigitChars[i] = c) - 1

\* code points of the characters that occur in labels, for str comparison
CharCode(c) ==
    CASE c = "-" -> 45
      [] c = "." -> 46
      [] c \in Digits -> 48 + DigitVal(c)
      [] c = "Q" -> 81
      [] c = "a" -> 97
      [] c = "n" -> 110

StrCodes(s) == [i \in Indices(s) |-> CharCode(s[i])]

\* str(n) of a non-negative int
RECURSIVE IntStr(_)
IntStr(n) ==
    IF n < 10 THEN <<DigitChars[n + 1]>>
    ELSE IntStr(n \div 10) \o <<DigitChars[(n % 10) + 1]>>

\* str(x) of a float64 holding a whole number: "2023.0"
FloatStr(n) == IntStr(n) \o <<".", "0">>
NanStr == <<"n", "a", "n">>

\* str.zfill(width)
RECURSIVE zfill(_, _)
zfill(s, width) == IF Len(s) >= width THEN s ELSE zfill(<<"0">> \o s, width)

\* str.split(sep): the list of parts
RECURSIVE SplitFrom(_, _, _)
SplitFrom(s, sep, cur) ==
    IF s = <<>> THEN <<cur>>
    ELSE IF Head(s) = sep THEN <<cur>> \o SplitFrom(Tail(s), sep, <<>>)
    ELSE SplitFrom(Tail(s), sep, Append(cur, Head(s)))

split(s, sep) == SplitFrom(s, sep, <<>>)

RECURSIVE DigitsValue(_, _)
DigitsValue(s, acc) ==
    IF s = <<>> THEN acc ELSE DigitsValue(Tail(s), 10 * acc + DigitVal(Head(s)))

IsDigits(s) == s # <<>> /\ \A i \in Indices(s) : s[i] \in Digits

\* int(s) of Python accepts an optional "-" and decimal digits (of the
\* characters of the model); on anything else it raises ValueError
IsIntLiteral(s) ==
    \/ IsDigits(s)
    \/ s # <<>> /\ Head(s) = "-" /\ IsDigits(Tail(s))

ParseInt(s) ==
    IF IsDigits(s) THEN DigitsValue(s, 0) ELSE 0 - DigitsValue(Tail(s), 0)

(***************************************************************************)
(* The measures (large_hospital_dataset_cleaning.py).                      *)
(***************************************************************************)
\* the strings a Measure or Definitions column holds, in str order
StrOrder == <<"CAUTI", "CLABSI", "Falls with Injury", "HAPI",
              "Per 100 surveyed patients", "Per 1000 device days",
              "Per 1000 patient days", "Sepsis", "Unknown">>
StrRank(x) == CHOOSE i \in Indices(StrOrder) : StrOrder[i] = x

\* df["Measure"].map({...}): a measure outside the dict maps to NaN
MultiplierOf(measure) ==
    CASE measure = "HAPI" -> Fin(QInt(100))
      [] measure = "Falls with Injury" -> Fin(QInt(1000))
      [] measure = "CAUTI" -> Fin(QInt(1000))
      [] measure = "CLABSI" -> Fin(QInt(1000))
      [] OTHER -> NaN

\* np.select(conditions, Definitions, default="Unknown")
DefinitionOf(measure) ==
    CASE measure = "HAPI" -> "Per 100 surveyed patients"
      [] measure = "Falls with Injury" -> "Per 1000 patient days"
      [] measure = "CAUTI" -> "Per 1000 device days"
      [] measure = "CLABSI" -> "Per 1000 device days"
      [] OTHER -> "Unknown"

(***************************************************************************)
(* AddDateColumns                                                          *)
(***************************************************************************)
NaT == [nat |-> TRUE]

\* pd.to_datetime(..., errors='coerce'): a raw value is either a date the
\* parser accepts, [ok |-> TRUE, year, month], or one it does not
to_datetime(raw) ==
    IF raw.ok THEN [nat |-> FALSE, year |-> raw.year, month |-> raw.month] ELSE NaT

QuarterOfMonth(m) == ((m - 1) \div 3) + 1

\* Series.astype(str) of dt.year / dt.quarter / dt.month: the Series is int32
\* when no value is NaT and float64 (NaN for NaT) as soon as one is
NumStr(isFloat, isNaT, n) ==
    IF isNaT THEN NanStr
    ELSE IF isFloat THEN FloatStr(n)
    ELSE IntStr(n)

AddDateColumns(table) ==
    LET dates == [i \in Indices(table) |-> to_datetime(table[i].DischargeMonth)]
        anyNaT == \E i \in Indices(table) : dates[i].nat
        year(i) == NumStr(anyNaT, dates[i].nat, IF dates[i].nat THEN 0 ELSE dates[i].year)
        quarter(i) == NumStr(anyNaT, dates[i].nat,
                             IF dates[i].nat THEN 0 ELSE QuarterOfMonth(dates[i].month))
        month(i) == NumStr(anyNaT, dates[i].nat, IF dates[i].nat THEN 0 ELSE dates[i].month)
    IN  [i \in Indices(table) |->
            [Measure |-> table[i].Measure,
             Numerator |-> table[i].Numerator,
             Denominator |-> table[i].Denominator,
             ExpectedEvents |-> table[i].ExpectedEvents,
             Multiplier |-> table[i].Multiplier,
             Definitions |-> table[i].Definitions,
             DischargeMonth |-> dates[i],
             Year |-> year(i),
             Quarter |-> year(i) \o <<"-">> \o quarter(i),
             Month |-> year(i) \o <<"-">> \o zfill(month(i), 2)]]

(***************************************************************************)
(* sort_by_date                                                            *)
(***************************************************************************)
Raised(e) == [ok |-> FALSE, error |-> e, rows |-> <<>>]
Returned(rows) == [ok |-> TRUE, error |-> "none", rows |-> rows]

Max(S) == CHOOSE x \in S : \A y \in S : y <= x

\* frequency == "Year": Date.astype(int), sort by [Measure, Year]
SortYear(rows) ==
    LET yr(i) == ParseInt(rows[i].Date)
    IN  IF \E i \in Indices(rows) : ~IsIntLiteral(rows[i].Date)
        THEN Raised("ValueError")
        ELSE Returned(sort_values(
                [i \in Indices(rows) |->
                    [key |-> <<StrRank(rows[i].Measure), yr(i)>>, row |-> rows[i]]]))

\* the Quarter branch and the else branch: Date.str.split("-", expand=True)
\* assigned to two columns, both astype(int), sort by [Measure, Year, sub]
SortSplit(rows) ==
    LET parts(i) == split(rows[i].Date, "-")
        ncols == IF rows = <<>> THEN 0 ELSE Max({Len(parts(i)) : i \in Indices(rows)})
    IN  IF ncols # 2
        THEN Raised("ValueError")                 \* Columns must be same length as key
        ELSE IF \E i \in Indices(rows) : Len(parts(i)) < 2
        THEN Raised("TypeError")                  \* int(None)
        ELSE IF \E i \in Indices(rows) :
                    ~IsIntLiteral(parts(i)[1]) \/ ~IsIntLiteral(parts(i)[2])
        THEN Raised("ValueError")
        ELSE Returned(sort_values(
                [i \in Indices(rows) |->
                    [key |-> <<StrRank(rows[i].Measure),
                               ParseInt(parts(i)[1]), ParseInt(parts(i)[2])>>,
                     row |-> rows[i]]]))

\* mutant of sort_by_date: the Year branch is missing
sort_by_date_split_only(rows, freq) == SortSplit(rows)

sort_by_date(rows, freq) ==
    IF freq = "Year" THEN SortYear(rows)
    ELSE IF freq = "Quarter" THEN SortSplit(rows)
    ELSE SortSplit(rows)                          \* assume Month

(***************************************************************************)
(* aggregate_dataframe                                                     *)
(***************************************************************************)
\* the group key of a row of df_subset for group_by_cols + [date_col]
GroupKey(r, date_col) ==
    [Measure |-> r.Measure, Definitions |-> r.Definitions,
     Multiplier |-> r.Multiplier, Date |-> r[date_col]]

\* groupby(...) with the default dropna=True leaves out every row that has a
\* missing value in a key column; Multiplier is the only key that can be NaN
HasKey(r) == r.Multiplier.k # "nan"

\* the order groupby(sort=True) gives the groups: by the key columns in turn
\* (the Multiplier of a group is a whole number)
GroupOrder(k) ==
    <<StrRank(k.Measure), StrRank(k.Definitions), k.Multiplier.q.n>> \o StrCodes(k.Date)

RECURSIVE SortedKeys(_)
SortedKeys(K) ==
    IF K = {} THEN <<>>
    ELSE LET m == CHOOSE k \in K : \A o \in K : KeyLe(GroupOrder(k), GroupOrder(o))
         IN  <<m>> \o SortedKeys(K \ {m})

\* .sum() of one column over the rows of one group
RECURSIVE GroupSum(_, _, _, _)
GroupSum(table, k, date_col, col) ==
    IF table = <<>> THEN 0
    ELSE (IF HasKey(Head(table)) /\ GroupKey(Head(table), date_col) = k
          THEN Head(table)[col] ELSE 0)
         + GroupSum(Tail(table), k, date_col, col)

\* agg_df["Rate"] = (Numerator / Denominator) * Multiplier
RateOf(numerator, denominator, multiplier) ==
    FMul(FDivInt(numerator, denominator), multiplier)

\* df_subset.groupby(group_by_cols)[sum_cols].sum().reset_index(), then the
\* frequency and Rate columns and the rename of date_col to Date
GroupedRows(table, date_col, freq) ==
    LET keys == SortedKeys({GroupKey(table[i], date_col) :
                                i \in {j \in Indices(table) : HasKey(table[j])}})
    IN  [g \in Indices(keys) |->
            LET num == GroupSum(table, keys[g], date_col, "Numerator")
                den == GroupSum(table, keys[g], date_col, "Denominator")
            IN  [index |-> g - 1,
                 Measure |-> keys[g].Measure,
                 Definitions |-> keys[g].Definitions,
                 Multiplier |-> keys[g].Multiplier,
                 Date |-> keys[g].Date,
                 Numerator |-> num,
                 Denominator |-> den,
                 ExpectedEvents |-> GroupSum(table, keys[g], date_col, "ExpectedEvents"),
                 frequency |-> freq,
                 Rate |-> RateOf(num, den, keys[g].Multiplier)]]

\* mutant of ReverseRowNumber: cumcount() counts from the oldest row
ForwardRowNumber(rows, i) ==
    Cardinality({j \in Indices(rows) : j < i /\ rows[j].Measure = rows[i].Measure}) + 1

\* groupby("Measure").cumcount(ascending=False) + 1: the rows of the same
\* Measure that come after the row, plus one
ReverseRowNumber(rows, i) ==
    Cardinality({j \in Indices(rows) : j > i /\ rows[j].Measure = rows[i].Measure}) + 1

WithRowNumber(rows) ==
    [i \in Indices(rows) |-> rows[i] @@ [RowNumber |-> ReverseRowNumber(rows, i)]]

aggregate_dataframe(table, date_col, freq) ==
    LET sorted == sort_by_date(GroupedRows(table, date_col, freq), freq)
    IN  IF sorted.ok THEN Returned(WithRowNumber(sorted.rows)) ELSE sorted

(***************************************************************************)
(* rolling_spc_agg                                                         *)
(***************************************************************************)
\* the rows of df that groupby('Measure') hands to calc_rolling for one
\* Measure: their positions in df, in df's order
RECURSIVE GroupPositions(_, _, _)
GroupPositions(rows, measure, from) ==
    IF from > Len(rows) THEN <<>>
    ELSE (IF rows[from].Measure = measure THEN <<from>> ELSE <<>>)
         \o GroupPositions(rows, measure, from + 1)

\* mutant of WindowOf: closed='right', the window ends with the row itself
WindowOfClosedRight(p, w) == {q \in (p - w + 1)..p : q >= 1}

\* rolling(window=w, closed='left'): the window of the row at position p
\* (1-based) of a group is the w rows before it, as far as they exist
WindowOf(p, w) == {q \in (p - w)..(p - 1) : q >= 1}

\* the observations of a window: pandas turns inf into NaN before rolling
\* and skips NaN; the sequence keeps the group's order
RECURSIVE Observations(_, _, _)
Observations(rates, W, q) ==
    IF q > Len(rates) THEN <<>>
    ELSE (IF q \in W /\ IsFin(rates[q]) THEN <<rates[q].q>> ELSE <<>>)
         \o Observations(rates, W, q + 1)

Squares(obs) == [i \in Indices(obs) |-> QMul(obs[i], obs[i])]

\* .rolling(window, min_periods, closed='left').mean()
RollingMean(rates, p, w, min_periods) ==
    LET obs == Observations(rates, WindowOf(p, w), 1)
    IN  IF Len(obs) >= min_periods /\ Len(obs) > 0
        THEN SRat(QDivInt(QSum(obs), Len(obs)))
        ELSE NaN

\* .rolling(window, min_periods, closed='left').std(): the sample standard
\* deviation (ddof = 1), NaN unless there are at least two observations
RollingStd(rates, p, w, min_periods) ==
    LET obs == Observations(rates, WindowOf(p, w), 1)
        n == Len(obs)
        sum == QSum(obs)
    IN  IF n >= min_periods /\ n > 1
        THEN SSqrt(QDivInt(QSub(QSum(Squares(obs)), QDivInt(QMul(sum, sum), n)), n - 1))
        ELSE NaN

\* mutant of ClipLower0: no clip
NoClip(x) == x

\* Series.clip(lower=0): NaN stays NaN
ClipLower0(x) == IF x.k = "nan" THEN NaN ELSE IF SNeg(x) THEN SZero ELSE x

UCL(cl, std, k) == SAdd(cl, SScale(k, std))
LCL(cl, std, k) == ClipLower0(SSub(cl, SScale(k, std)))

\* calc_rolling(group): the SPC columns of the row at position p of a group
\* whose Rate column is rates
calc_rolling(rates, p, w) ==
    LET cl == RollingMean(rates, p, w, w)
        std == RollingStd(rates, p, w, w)
    IN  [Rolling_CL |-> cl,
         Rolling_Std |-> std,
         Rolling_UCL_1STD |-> UCL(cl, std, 1),
         Rolling_LCL_1STD |-> LCL(cl, std, 1),
         Rolling_UCL_2STD |-> UCL(cl, std, 2),
         Rolling_LCL_2STD |-> LCL(cl, std, 2),
         Rolling_UCL_3STD |-> UCL(cl, std, 3),
         Rolling_LCL_3STD |-> LCL(cl, std, 3)]

AllNaN ==
    [Rolling_CL |-> NaN, Rolling_Std |-> NaN,
     Rolling_UCL_1STD |-> NaN, Rolling_LCL_1STD |-> NaN,
     Rolling_UCL_2STD |-> NaN, Rolling_LCL_2STD |-> NaN,
     Rolling_UCL_3STD |-> NaN, Rolling_LCL_3STD |-> NaN]

\* mutant of MaskYear: the yearly rows keep their SPC columns
MaskNothing(row, spc) == spc

\* df_out.loc[mask_year, spc_cols] = np.nan
MaskYear(row, spc) == IF row.frequency = "Year" THEN AllNaN ELSE spc

\* df.groupby('Measure', group_keys=False).apply(calc_rolling): every row
\* keeps its place in df and gets the columns computed in its own group
GroupApply(rows, w) ==
    [i \in Indices(rows) |->
        LET pos == GroupPositions(rows, rows[i].Measure, 1)
            rates == [q \in Indices(pos) |-> rows[pos[q]].Rate]
            p == CHOOSE q \in Indices(pos) : pos[q] = i
        IN  calc_rolling(rates, p, w)]

rolling_spc_agg(rows, w) ==
    LET applied == GroupApply(rows, w)
    IN  [i \in Indices(rows) |-> rows[i] @@ MaskYear(rows[i], applied[i])]

(***************************************************************************)
(* The script large_hospital_dataset_cleaning.py                           *)
(***************************************************************************)
WindowMonth == 24
WindowQuarter == 8
WindowYear == 2

\* df["Multiplier"] = df["Measure"].map(...); df["Definitions"] = np.select(...)
AssignMeasureColumns(table) ==
    [i \in Indices(table) |->
        table[i] @@ [Multiplier |-> MultiplierOf(table[i].Measure),
                     Definitions |-> DefinitionOf(table[i].Measure)]]

\* Series.str.replace(r"-(\d+)", r"-Q\1", regex=True): a Q goes in behind
\* every "-" that digits follow
RECURSIVE InsertQ(_)
InsertQ(s) ==
    IF s = <<>> THEN <<>>
    ELSE IF Head(s) = "-" /\ Len(s) >= 2 /\ s[2] \in Digits
         THEN <<"-", "Q">> \o InsertQ(Tail(s))
         ELSE <<Head(s)>> \o InsertQ(Tail(s))

\* agg_quarter_spc.loc[frequency == 'Quarter', 'Date'] = ...str.replace(...)
RelabelQuarterRows(rows) ==
    [i \in Indices(rows) |->
        IF rows[i].frequency = "Quarter"
        THEN [rows[i] EXCEPT !.Date = InsertQ(rows[i].Date)]
        ELSE rows[i]]

\* mutant of concat_ignore_index: ignore_index is left out
concat_keep_index(tables) == tables[1] \o tables[2] \o tables[3]

\* pd.concat([...], ignore_index=True): the tables one after the other, the
\* index renumbered from 0
concat_ignore_index(tables) ==
    LET all == tables[1] \o tables[2] \o tables[3]
    IN  [i \in Indices(all) |-> [all[i] EXCEPT !.index = i - 1]]

(***************************************************************************)
(* Inputs.                                                                 *)
(***************************************************************************)
Tables(Rows, lo, hi) == UNION {[1..n -> Rows] : n \in lo..hi}

Date(y, m) == [ok |-> TRUE, year |-> y, month |-> m]
BadDate == [ok |-> FALSE]

\* the raw records of the script's input: two measures of the mapping and one
\* outside it, three months (two of one quarter, two years) and an
\* unparseable date
RawMeasures == {"CAUTI", "HAPI", "Sepsis"}
RawDates == {Date(2023, 10), Date(2023, 11), Date(2024, 1), BadDate}
RawCounts == {[Numerator |-> 1, Denominator |-> 2, ExpectedEvents |-> 3]}
RawRecords ==
    {[Measure |-> m, DischargeMonth |-> d, Numerator |-> c.Numerator,
      Denominator |-> c.Denominator, ExpectedEvents |-> c.ExpectedEvents] :
        m \in RawMeasures, d \in RawDates, c \in RawCounts}

None == <<>>

(***************************************************************************)
(* Spec: the script, statement by statement.                               *)
(***************************************************************************)
Init ==
    /\ pc = "assign"
    /\ df \in Tables(RawRecords, 1, MaxRecords)
    /\ df_w_date_columns = None
    /\ agg_year = None /\ agg_quarter = None /\ agg_month = None
    /\ agg_month_spc = None /\ agg_quarter_spc = None /\ agg_year_spc = None
    /\ Finalset = None
    /\ df_subset = None /\ frequency = "none" /\ sorted_df = None
    /\ agg_df = None /\ window_size = 0 /\ df_out = None

SortVars == <<df_subset, frequency, sorted_df>>
RollVars == <<agg_df, window_size, df_out>>
AggVars == <<agg_year, agg_quarter, agg_month>>
SpcVars == <<agg_month_spc, agg_quarter_spc, agg_year_spc>>

\* lines 45-73
AssignColumns ==
    /\ pc = "assign"
    /\ df' = AssignMeasureColumns(df)
    /\ pc' = "dates"
    /\ UNCHANGED <<df_w_date_columns, AggVars, SpcVars, Finalset, SortVars, RollVars>>

\* line 82
CallAddDateColumns ==
    /\ pc = "dates"
    /\ df_w_date_columns' = AddDateColumns(df)
    /\ pc' = "agg_year"
    /\ UNCHANGED <<df, AggVars, SpcVars, Finalset, SortVars, RollVars>>

\* line 96; an exception ends the script
AggregateYear ==
    /\ pc = "agg_year"
    /\ LET r == aggregate_dataframe(df_w_date_columns, "Year", "Year")
       IN  IF r.ok THEN agg_year' = r.rows /\ pc' = "agg_quarter"
           ELSE agg_year' = agg_year /\ pc' = "raised"
    /\ UNCHANGED <<df, df_w_date_columns, agg_quarter, agg_month, SpcVars, Finalset,
                   SortVars, RollVars>>

\* line 97
AggregateQuarter ==
    /\ pc = "agg_quarter"
    /\ LET r == aggregate_dataframe(df_w_date_columns, "Quarter", "Quarter")
       IN  IF r.ok THEN agg_quarter' = r.rows /\ pc' = "agg_month"
           ELSE agg_quarter' = agg_quarter /\ pc' = "raised"
    /\ UNCHANGED <<df, df_w_date_columns, agg_year, agg_month, SpcVars, Finalset,
                   SortVars, RollVars>>

\* line 98
AggregateMonth ==
    /\ pc = "agg_month"
    /\ LET r == aggregate_dataframe(df_w_date_columns, "Month", "Month")
       IN  IF r.ok THEN agg_month' = r.rows /\ pc' = "spc_month"
           ELSE agg_month' = agg_month /\ pc' = "raised"
    /\ UNCHANGED <<df, df_w_date_columns, agg_year, agg_quarter, SpcVars, Finalset,
                   SortVars, RollVars>>

\* line 108
SpcMonth ==
    /\ pc = "spc_month"
    /\ agg_month_spc' = rolling_spc_agg(agg_month, WindowMonth)
    /\ pc' = "spc_quarter"
    /\ UNCHANGED <<df, df_w_date_columns, AggVars, agg_quarter_spc, agg_year_spc,
                   Finalset, SortVars, RollVars>>

\* line 109
SpcQuarter ==
    /\ pc = "spc_quarter"
    /\ agg_quarter_spc' = rolling_spc_agg(agg_quarter, WindowQuarter)
    /\ pc' = "spc_year"
    /\ UNCHANGED <<df, df_w_date_columns, AggVars, agg_month_spc, agg_year_spc,
                   Finalset, SortVars, RollVars>>

\* line 110
SpcYear ==
    /\ pc = "spc_year"
    /\ agg_year_spc' = rolling_spc_agg(agg_year, WindowYear)
    /\ pc' = "relabel"
    /\ UNCHANGED <<df, df_w_date_columns, AggVars, agg_month_spc, agg_quarter_spc,
                   Finalset, SortVars, RollVars>>

\* lines 117-120
RelabelQuarter ==
    /\ pc = "relabel"
    /\ agg_quarter_spc' = RelabelQuarterRows(agg_quarter_spc)
    /\ pc' = "concat"
    /\ UNCHANGED <<df, df_w_date_columns, AggVars, agg_month_spc, agg_year_spc,
                   Finalset, SortVars, RollVars>>

\* line 128
Concat ==
    /\ pc = "concat"
    /\ Finalset' = concat_ignore_index(<<agg_month_spc, agg_quarter_spc, agg_year_spc>>)
    /\ pc' = "done"
    /\ UNCHANGED <<df, df_w_date_columns, AggVars, SpcVars, SortVars, RollVars>>

Next ==
    \/ AssignColumns
    \/ CallAddDateColumns
    \/ AggregateYear
    \/ AggregateQuarter
    \/ AggregateMonth
    \/ SpcMonth
    \/ SpcQuarter
    \/ SpcYear
    \/ RelabelQuarter
    \/ Concat

Spec == Init /\ [][Next]_vars

(***************************************************************************)
(* SpecSort: sort_by_date on tables of period labels.                      *)
(***************************************************************************)
\* labels of the three granularities: years, quarters (the fourth of 2023
\* and the first of 2024) and months (September and October 2023)
SortLabels ==
    {<<"2", "0", "2", "3">>, <<"2", "0", "2", "4">>,
     <<"2", "0", "2", "3", "-", "4">>, <<"2", "0", "2", "4", "-", "1">>,
     <<"2", "0", "2", "3", "-", "0", "9">>, <<"2", "0", "2", "3", "-", "1", "0">>}
SortMeasures == {"CAUTI", "HAPI"}
SortFrequencies == {"Year", "Quarter", "Month", "Week"}

\* a table of SortRows with the index a fresh DataFrame has
Indexed(t) == [i \in Indices(t) |-> t[i] @@ [index |-> i - 1]]

InitSort ==
    /\ pc = "sort"
    /\ \E t \in Tables([Measure : SortMeasures, Date : SortLabels], 1, MaxLabels) :
          df_subset = Indexed(t)
    /\ frequency \in SortFrequencies
    /\ sorted_df = None
    /\ df = None /\ df_w_date_columns = None
    /\ agg_year = None /\ agg_quarter = None /\ agg_month = None
    /\ agg_month_spc = None /\ agg_quarter_spc = None /\ agg_year_spc = None
    /\ Finalset = None
    /\ agg_df = None /\ window_size = 0 /\ df_out = None

CallSortByDate ==
    /\ pc = "sort"
    /\ sorted_df' = sort_by_date(df_subset, frequency)
    /\ pc' = "sorted"
    /\ UNCHANGED <<df, df_w_date_columns, AggVars, SpcVars, Finalset,
                   df_subset, frequency, RollVars>>

NextSort == CallSortByDate

SpecSort == InitSort /\ [][NextSort]_vars

(***************************************************************************)
(* SpecRolling: rolling_spc_agg on the tables aggregate_dataframe returns. *)
(***************************************************************************)
\* the (Numerator, Denominator) sums of an aggregated row: rates 1 and 1/3
\* (times the Multiplier), 1/0 and 0/0
RollCounts == {<<1, 1>>, <<1, 3>>, <<1, 0>>, <<0, 0>>}
RollFrequencies == {"Year", "Quarter", "Month"}

\* the j-th period of a series at each granularity: years from 2022,
\* quarters from 2023-3, months from 2023-09
PeriodDate(freq, j) ==
    IF freq = "Year" THEN Date(2021 + j, 1)
    ELSE IF freq = "Quarter"
         THEN Date(2023 + ((j + 1) \div 4), 3 * ((j + 1) % 4) + 1)
         ELSE Date(2023 + ((j + 7) \div 12), ((j + 7) % 12) + 1)

\* one raw record per period of one measure
SeriesRecords(measure, freq, counts) ==
    [j \in Indices(counts) |->
        [Measure |-> measure, DischargeMonth |-> PeriodDate(freq, j),
         Numerator |-> counts[j][1], Denominator |-> counts[j][2],
         ExpectedEvents |-> 1]]

\* the table aggregate_dataframe returns for a CAUTI and a HAPI series
AggregatedSeries(freq, cauti, hapi) ==
    aggregate_dataframe(
        AddDateColumns(AssignMeasureColumns(
            SeriesRecords("HAPI", freq, hapi) \o SeriesRecords("CAUTI", freq, cauti))),
        freq, freq).rows

InitRolling ==
    /\ pc = "roll"
    /\ \E n \in 1..MaxRows : \E a \in 0..n :
          \E cauti \in [1..a -> RollCounts], hapi \in [1..(n - a) -> RollCounts] :
             \E f \in RollFrequencies : agg_df = AggregatedSeries(f, cauti, hapi)
    /\ window_size \in 1..MaxWindow
    /\ df_out = None
    /\ df = None /\ df_w_date_columns = None
    /\ agg_year = None /\ agg_quarter = None /\ agg_month = None
    /\ agg_month_spc = None /\ agg_quarter_spc = None /\ agg_year_spc = None
    /\ Finalset = None
    /\ df_subset = None /\ frequency = "none" /\ sorted_df = None

CallRollingSpcAgg ==
    /\ pc = "roll"
    /\ df_out' = rolling_spc_agg(agg_df, window_size)
    /\ pc' = "rolled"
    /\ UNCHANGED <<df, df_w_date_columns, AggVars, SpcVars, Finalset,
                   SortVars, agg_df, window_size>>

NextRolling == CallRollingSpcAgg

SpecRolling == InitRolling /\ [][NextRolling]_vars

(***************************************************************************)
(* Properties of rolling_spc_agg (SpecRolling).                            *)
(***************************************************************************)
SpcFields ==
    {"Rolling_CL", "Rolling_Std",
     "Rolling_UCL_1STD", "Rolling_LCL_1STD",
     "Rolling_UCL_2STD", "Rolling_LCL_2STD",
     "Rolling_UCL_3STD", "Rolling_LCL_3STD"}
BandFields == SpcFields \ {"Rolling_CL"}
LclField(k) ==
    CASE k = 1 -> "Rolling_LCL_1STD" [] k = 2 -> "Rolling_LCL_2STD" [] k = 3 -> "Rolling_LCL_3STD"

\* the rows of the same Measure before row i, and the 0-indexed position of
\* row i in the sequence of its Measure
EarlierRows(rows, i) == {k \in 1..(i - 1) : rows[k].Measure = rows[i].Measure}
PositionInMeasure(rows, i) == Cardinality(EarlierRows(rows, i))

\* the w rows of the same Measure just before row i (all of them if fewer)
PrecedingRows(rows, i, w) ==
    {k \in EarlierRows(rows, i) :
        Cardinality({m \in EarlierRows(rows, i) : m > k}) < w}

RECURSIVE RateSum(_, _)
RateSum(rows, S) ==
    IF S = {} THEN QZero
    ELSE LET k == CHOOSE x \in S : TRUE
         IN  QAdd(rows[k].Rate.q, RateSum(rows, S \ {k}))

AllFinite(rows, S) == \A k \in S : IsFin(rows[k].Rate)
MeanOf(rows, S) == SRat(QDivInt(RateSum(rows, S), Cardinality(S)))

\* Rolling_CL of row i is the mean of the Rates of the rows S (not a number
\* when one of these Rates is not finite)
ClIsMeanOf(i, S) ==
    IF AllFinite(agg_df, S)
    THEN df_out[i].Rolling_CL = MeanOf(agg_df, S)
    ELSE ~IsFin(df_out[i].Rolling_CL)

\* C1 as stated: every row with at least W rows of its Measure before it has
\* Rolling_CL = the mean of the Rates of the W rows of its Measure just
\* before it.
C1_ClIsMeanOfPrecedingRows ==
    pc = "rolled" =>
        \A i \in Indices(df_out) :
            PositionInMeasure(agg_df, i) >= window_size =>
                ClIsMeanOf(i, PrecedingRows(agg_df, i, window_size))

\* C1 amended: the same for every row whose frequency is not "Year" (the
\* mean is null when one of the W Rates is not finite); Rolling_CL of a
\* "Year" row is null.
C1_ClIsMeanOfPrecedingRowsUnlessYear ==
    pc = "rolled" =>
        \A i \in Indices(df_out) :
            IF df_out[i].frequency = "Year"
            THEN df_out[i].Rolling_CL = NaN
            ELSE PositionInMeasure(agg_df, i) >= window_size =>
                    ClIsMeanOf(i, PrecedingRows(agg_df, i, window_size))

\* C1 witness: a table of two Measures, a window of at least two rows, and a
\* row behind its first full window whose Rolling_CL is a number that is not
\* its own Rate.
C1_Witness ==
    /\ pc = "rolled" /\ window_size >= 2
    /\ \E i, j \in Indices(df_out) :
          /\ df_out[i].Measure # df_out[j].Measure
          /\ df_out[i].frequency # "Year"
          /\ PositionInMeasure(agg_df, i) >= window_size
          /\ IsFin(df_out[i].Rolling_CL) /\ IsFin(df_out[i].Rate)
          /\ df_out[i].Rolling_CL # SRat(df_out[i].Rate.q)

Defined(row, fields) == \A f \in fields : IsFin(row[f])
Undefined(row, fields) == \A f \in fields : row[f] = NaN

\* C2 as stated: the SPC fields are undefined for the first W rows of each
\* Measure and defined from row W+1 on, and always undefined for "Year".
C2_DefinedFromRowWPlus1 ==
    pc = "rolled" =>
        \A i \in Indices(df_out) :
            IF df_out[i].frequency = "Year" \/ PositionInMeasure(agg_df, i) < window_size
            THEN Undefined(df_out[i], SpcFields)
            ELSE Defined(df_out[i], SpcFields)

\* C2 amended: "Year" rows and the first W rows of each Measure have all SPC
\* fields undefined; in a later row Rolling_CL is defined exactly when the W
\* Rates before it are all finite, and Rolling_Std and the six bands exactly
\* when moreover W >= 2.
C2_DefinedWhenWindowFinite ==
    pc = "rolled" =>
        \A i \in Indices(df_out) :
            IF df_out[i].frequency = "Year" \/ PositionInMeasure(agg_df, i) < window_size
            THEN Undefined(df_out[i], SpcFields)
            ELSE LET fin == AllFinite(agg_df, PrecedingRows(agg_df, i, window_size))
                 IN  /\ IF fin THEN Defined(df_out[i], {"Rolling_CL"})
                               ELSE Undefined(df_out[i], {"Rolling_CL"})
                     /\ IF fin /\ window_size >= 2 THEN Defined(df_out[i], BandFields)
                                                   ELSE Undefined(df_out[i], BandFields)

\* C2 witness: a Measure whose row W is undefined and whose row W+1 has
\* every SPC field defined.
C2_Witness ==
    /\ pc = "rolled"
    /\ \E i, j \in Indices(df_out) :
          /\ df_out[i].Measure = df_out[j].Measure
          /\ PositionInMeasure(agg_df, i) = window_size - 1
          /\ PositionInMeasure(agg_df, j) = window_size
          /\ Undefined(df_out[i], SpcFields)
          /\ Defined(df_out[j], SpcFields)

\* C3: Rolling_LCL_kSTD is never negative; it is max(0, Rolling_CL -
\* k * Rolling_Std), and null exactly when Rolling_CL or Rolling_Std is.
C3_LclIsClippedAtZero ==
    pc = "rolled" =>
        \A i \in Indices(df_out) : \A k \in 1..3 :
            LET cl == df_out[i].Rolling_CL
                std == df_out[i].Rolling_Std
                lcl == df_out[i][LclField(k)]
                unclipped == SSub(cl, SScale(k, std))
            IN  IF cl = NaN \/ std = NaN THEN lcl = NaN
                ELSE /\ IsFin(lcl) /\ ~SNeg(lcl)
                     /\ lcl = IF SNeg(unclipped) THEN SZero ELSE unclipped

\* C3 witness: a row where Rolling_CL - 2 * Rolling_Std is negative and
\* Rolling_LCL_2STD is 0, while Rolling_CL - 1 * Rolling_Std is positive and
\* is Rolling_LCL_1STD.
C3_Witness ==
    /\ pc = "rolled"
    /\ \E i \in Indices(df_out) :
          /\ IsFin(df_out[i].Rolling_Std) /\ df_out[i].Rolling_Std # SZero
          /\ SNeg(SSub(df_out[i].Rolling_CL, SScale(2, df_out[i].Rolling_Std)))
          /\ df_out[i].Rolling_LCL_2STD = SZero
          /\ df_out[i].Rolling_LCL_1STD # SZero
          /\ df_out[i].Rolling_LCL_1STD = SSub(df_out[i].Rolling_CL, df_out[i].Rolling_Std)

\* the SPC columns of a row
SpcOf(row) == [f \in SpcFields |-> row[f]]

\* the window of row i holds row j
WindowHolds(i, j) == j \in PrecedingRows(agg_df, i, window_size)

\* what rolling_spc_agg returns when the Rate of row j is the number r
WithRate(j, r) == rolling_spc_agg([agg_df EXCEPT ![j].Rate = Fin(r)], window_size)

\* C7 as stated: a grouped row with Denominator = 0 has a non-finite Rate;
\* its own SPC fields and those of every row whose window holds it are
\* non-finite, and every other row of the Measure has the SPC fields it
\* would have if that Rate were finite.
C7_ZeroDenominatorOwnRowToo ==
    pc = "rolled" =>
        \A j \in Indices(agg_df) :
            agg_df[j].Denominator = 0 =>
                /\ ~IsFin(agg_df[j].Rate)
                /\ Undefined(df_out[j], SpcFields)
                /\ \A i \in Indices(df_out) :
                      /\ WindowHolds(i, j) => Undefined(df_out[i], SpcFields)
                      /\ (i # j /\ ~WindowHolds(i, j)) =>
                            \A r \in {QZero, QInt(7)} :
                                SpcOf(df_out[i]) = SpcOf(WithRate(j, r)[i])

\* C7 amended: a grouped row with Denominator = 0 has a non-finite Rate and
\* no error is raised; the SPC fields of every row whose window (the W rows
\* before it) holds that row are null, and every other row, the
\* zero-denominator row itself included, has the SPC fields it would have
\* if that Rate were finite.
C7_ZeroDenominatorPropagates ==
    pc = "rolled" =>
        \A j \in Indices(agg_df) :
            agg_df[j].Denominator = 0 =>
                /\ ~IsFin(agg_df[j].Rate)
                /\ \A i \in Indices(df_out) :
                      /\ WindowHolds(i, j) => Undefined(df_out[i], SpcFields)
                      /\ ~WindowHolds(i, j) =>
                            \A r \in {QZero, QInt(7)} :
                                SpcOf(df_out[i]) = SpcOf(WithRate(j, r)[i])

\* C7 witness: a zero-denominator row with a defined Rolling_CL of its own,
\* a later row of the Measure whose window holds it and a still later one
\* whose window does not and whose Rolling_CL is defined.
C7_Witness ==
    /\ pc = "rolled"
    /\ \E j, i, l \in Indices(df_out) :
          /\ agg_df[j].Denominator = 0
          /\ IsFin(df_out[j].Rolling_CL)
          /\ WindowHolds(i, j) /\ Undefined(df_out[i], SpcFields)
          /\ l > i /\ df_out[l].Measure = df_out[j].Measure /\ ~WindowHolds(l, j)
          /\ IsFin(df_out[l].Rolling_CL)

(***************************************************************************)
(* Properties of sort_by_date (SpecSort).                                  *)
(***************************************************************************)
\* the label formats of the docstring: "YYYY", "YYYY-Q", "YYYY-MM"
WellFormed(label, freq) ==
    CASE freq = "Year" -> Len(label) = 4 /\ IsDigits(label)
      [] freq = "Quarter" ->
            /\ Len(label) = 6 /\ IsDigits(SubSeq(label, 1, 4)) /\ label[5] = "-"
            /\ label[6] \in {"1", "2", "3", "4"}
      [] freq = "Month" ->
            /\ Len(label) = 7 /\ IsDigits(SubSeq(label, 1, 4)) /\ label[5] = "-"
            /\ IsDigits(SubSeq(label, 6, 7))
            /\ DigitsValue(SubSeq(label, 6, 7), 0) \in 1..12
      [] OTHER -> FALSE

\* (year, sub-period) of a label, as integers
PeriodOf(label) ==
    LET parts == split(label, "-")
    IN  <<ParseInt(parts[1]), IF Len(parts) >= 2 THEN ParseInt(parts[2]) ELSE 0>>

PeriodLe(a, b) == a[1] < b[1] \/ (a[1] = b[1] /\ a[2] <= b[2])
PeriodLt(a, b) == PeriodLe(a, b) /\ a # b

SameRows(s, t) ==
    /\ Len(s) = Len(t)
    /\ \A r \in {s[i] : i \in Indices(s)} :
          Cardinality({i \in Indices(s) : s[i] = r}) = Cardinality({i \in Indices(t) : t[i] = r})

\* C8: for Year, Quarter and Month and labels well-formed for the
\* granularity, sort_by_date returns the rows of its input, without parsing
\* columns, and within each Measure (year, sub-period) never decreases.
C8_SortedByPeriodWithinMeasure ==
    (/\ pc = "sorted"
     /\ frequency \in {"Year", "Quarter", "Month"}
     /\ \A i \in Indices(df_subset) : WellFormed(df_subset[i].Date, frequency))
    => /\ sorted_df.ok
       /\ SameRows(sorted_df.rows, df_subset)
       /\ \A i, j \in Indices(sorted_df.rows) :
             (i < j /\ sorted_df.rows[i].Measure = sorted_df.rows[j].Measure) =>
                PeriodLe(PeriodOf(sorted_df.rows[i].Date), PeriodOf(sorted_df.rows[j].Date))

\* C8 witness: month labels of one Measure given with 2023-10 before
\* 2023-09, returned with 2023-09 first.
C8_Witness ==
    /\ pc = "sorted" /\ frequency = "Month" /\ sorted_df.ok
    /\ \E i, j \in Indices(df_subset) :
          /\ i < j /\ df_subset[i].Measure = df_subset[j].Measure
          /\ df_subset[i].Date = <<"2", "0", "2", "3", "-", "1", "0">>
          /\ df_subset[j].Date = <<"2", "0", "2", "3", "-", "0", "9">>
          /\ \E a, b \in Indices(sorted_df.rows) :
                a < b /\ sorted_df.rows[a] = df_subset[j] /\ sorted_df.rows[b] = df_subset[i]

\* C9 as stated: sort_by_date raises whenever a label is not in the format
\* of the frequency, or the frequency is none of Year, Quarter, Month.
C9_MismatchRaises ==
    (/\ pc = "sorted"
     /\ \/ frequency \notin {"Year", "Quarter", "Month"}
        \/ \E i \in Indices(df_subset) : ~WellFormed(df_subset[i].Date, frequency))
    => ~sorted_df.ok

\* one "-" with decimal digits on both sides
TwoIntegers(label) ==
    \E k \in Indices(label) :
        /\ label[k] = "-"
        /\ IsDigits(SubSeq(label, 1, k - 1))
        /\ IsDigits(SubSeq(label, k + 1, Len(label)))

\* what the branch taken for the frequency can parse
Parseable(label, freq) ==
    IF freq = "Year" THEN IsIntLiteral(label) ELSE TwoIntegers(label)

\* C9 amended: on a non-empty table sort_by_date raises exactly when some
\* label cannot be parsed by the branch taken: under "Year" a label that is
\* no integer literal, under any other frequency (all but "Year" and
\* "Quarter" are taken as Month) a label that is not two integer literals
\* joined by one "-".  Quarter labels under Month, Month labels under
\* Quarter and any such label under an unknown frequency are sorted.
C9_RaisesIffUnparseable ==
    pc = "sorted" =>
        (~sorted_df.ok <=> \E i \in Indices(df_subset) : ~Parseable(df_subset[i].Date, frequency))

\* C9 witness: a Year label under frequency Month, and the call raised.
C9_Witness ==
    /\ pc = "sorted" /\ frequency = "Month" /\ ~sorted_df.ok
    /\ \E i \in Indices(df_subset) : WellFormed(df_subset[i].Date, "Year")

(***************************************************************************)
(* Properties of aggregate_dataframe and of the script (Spec).             *)
(***************************************************************************)
CategoryOf(row) == <<row.Measure, row.Definitions, row.Multiplier>>

\* the rows of the category of row i whose period is later than its own
LaterRows(t, i) ==
    {j \in Indices(t) :
        /\ CategoryOf(t[j]) = CategoryOf(t[i])
        /\ PeriodLt(PeriodOf(t[i].Date), PeriodOf(t[j].Date))}

RowNumberIsReverseRank(t) ==
    \A i \in Indices(t) :
        LET cat == {j \in Indices(t) : CategoryOf(t[j]) = CategoryOf(t[i])}
        IN  /\ t[i].RowNumber = Cardinality(LaterRows(t, i)) + 1
            /\ {t[j].RowNumber : j \in cat} = 1..Cardinality(cat)
            /\ Cardinality({j \in cat : t[j].RowNumber = 1}) = 1
            /\ t[i].RowNumber = 1 <=> LaterRows(t, i) = {}

\* C4: in every table aggregate_dataframe returned, RowNumber is the 1-based
\* rank of the row's period in descending chronological order within its
\* category: the values are 1..n, and RowNumber 1 is on exactly one row of
\* the category, the one of its last period.
C4_RowNumberIsReverseRank ==
    /\ RowNumberIsReverseRank(agg_year)
    /\ RowNumberIsReverseRank(agg_quarter)
    /\ RowNumberIsReverseRank(agg_month)

\* C4 witness: a month table with two periods of one category, given out of
\* order in the input, and a row of another category.
C4_Witness ==
    /\ pc = "spc_month" /\ Len(agg_month) = 3
    /\ \E i, j, l \in Indices(agg_month) :
          /\ i < j /\ agg_month[i].Measure = agg_month[j].Measure
          /\ agg_month[l].Measure # agg_month[i].Measure
          /\ agg_month[i].RowNumber = 2 /\ agg_month[j].RowNumber = 1
    /\ \E a, b \in Indices(df) :
          /\ a < b /\ df[a].Measure = df[b].Measure
          /\ df[a].DischargeMonth.ok /\ df[b].DischargeMonth.ok
          /\ df[b].DischargeMonth.year < df[a].DischargeMonth.year

\* the (Measure, Definitions, Multiplier, period) combinations of the input
Combinations(date_col) ==
    {GroupKey(df_w_date_columns[i], date_col) : i \in Indices(df_w_date_columns)}

RECURSIVE ColumnSum(_, _, _, _)
ColumnSum(t, S, col, from) ==
    IF from > Len(t) THEN 0
    ELSE (IF from \in S THEN t[from][col] ELSE 0) + ColumnSum(t, S, col, from + 1)

OneRowPerCombination(out, date_col) ==
    /\ Len(out) = Cardinality(Combinations(date_col))
    /\ \A c \in Combinations(date_col) :
          LET recs == {i \in Indices(df_w_date_columns) :
                          GroupKey(df_w_date_columns[i], date_col) = c}
              hits == {g \in Indices(out) :
                          /\ CategoryOf(out[g]) = <<c.Measure, c.Definitions, c.Multiplier>>
                          /\ out[g].Date = c.Date}
          IN  /\ Cardinality(hits) = 1
              /\ \A g \in hits :
                    /\ out[g].Numerator = ColumnSum(df_w_date_columns, recs, "Numerator", 1)
                    /\ out[g].Denominator = ColumnSum(df_w_date_columns, recs, "Denominator", 1)
                    /\ out[g].ExpectedEvents =
                          ColumnSum(df_w_date_columns, recs, "ExpectedEvents", 1)

\* C5: the table aggregate_dataframe returns has exactly one row for every
\* (Measure, Definitions, Multiplier, period) combination of the input, a
\* missing Multiplier included, with the sums of the records of the
\* combination.
C5_OneRowPerCombination ==
    /\ pc = "agg_quarter" => OneRowPerCombination(agg_year, "Year")
    /\ pc = "agg_month" => OneRowPerCombination(agg_quarter, "Quarter")
    /\ pc = "spc_month" => OneRowPerCombination(agg_month, "Month")

HasMalformedDate == \E i \in Indices(df) : ~df[i].DischargeMonth.ok

\* C6: a record with a malformed date never aborts the script, and its
\* counts are in a row of its category in every aggregated table (the
\* unknown-period row).
C6_MalformedDateIsAbsorbed ==
    HasMalformedDate =>
        /\ pc # "raised"
        /\ pc = "agg_quarter" =>
              \A i \in Indices(df) :
                  ~df[i].DischargeMonth.ok =>
                      \E g \in Indices(agg_year) :
                          /\ agg_year[g].Measure = df[i].Measure
                          /\ agg_year[g].Date = df_w_date_columns[i].Year
                          /\ agg_year[g].Numerator >= df[i].Numerator

Unindexed(row) == [row EXCEPT !.index = 0]

FrequencyRank(f) == CASE f = "Month" -> 1 [] f = "Quarter" -> 2 [] f = "Year" -> 3

\* C10: Finalset is the Month, Quarter and Year SPC tables one after the
\* other in that order, each block in the order of its table, the index
\* renumbered 0..N-1, N the sum of the three row counts.
C10_FinalsetIsMonthQuarterYear ==
    pc = "done" =>
        LET m == Len(agg_month_spc)
            q == Len(agg_quarter_spc)
            y == Len(agg_year_spc)
        IN  /\ Len(Finalset) = m + q + y
            /\ \A i \in Indices(Finalset) : Finalset[i].index = i - 1
            /\ \A i \in 1..m : Unindexed(Finalset[i]) = Unindexed(agg_month_spc[i])
            /\ \A i \in 1..q : Unindexed(Finalset[m + i]) = Unindexed(agg_quarter_spc[i])
            /\ \A i \in 1..y : Unindexed(Finalset[m + q + i]) = Unindexed(agg_year_spc[i])
            /\ \A i, j \in Indices(Finalset) :
                  i < j => FrequencyRank(Finalset[i].frequency)
                              <= FrequencyRank(Finalset[j].frequency)

\* C10 witness: a finished run with three Month rows, two Quarter rows and
\* two Year rows, where a row got a new index.
C10_Witness ==
    /\ pc = "done"
    /\ Len(agg_month_spc) = 3 /\ Len(agg_quarter_spc) = 2 /\ Len(agg_year_spc) = 2
    /\ Len(Finalset) = 7
    /\ Finalset[4].frequency = "Quarter" /\ Finalset[6].frequency = "Year"
    /\ Finalset[4].index # agg_quarter_spc[1].index

====
